---- MODULE Spec2Model ----
(***************************************************************************)
(* Model of sc3tools' src/gamedef.rs: the row-aligned charset table        *)
(* builder and the compound-character map parser of GameDef::new, and the  *)
(* catalog lookups get / get_by_alias over DEFS.                           *)
(*                                                                         *)
(* A Rust char is modelled by its Unicode scalar value (a natural), a      *)
(* &str / Vec<char> by a sequence of chars, a HashMap<char, String> by a   *)
(* function from its key set to payload sequences.                         *)
(***************************************************************************)
EXTENDS Integers, Sequences, FiniteSets, TLC

VARIABLES
    pc,             \* position inside GameDef::new
    full_name,      \* GameDef::new's full_name argument
    charsetRes,     \* contents of <resource_dir>/charset.utf8
    compoundRes,    \* contents of <resource_dir>/compound_chars.map
    charsetIn,      \* the local _charset: Vec<char> (carriage returns removed)
    charset,        \* the local charset: Vec<char> (the table under construction)
    i,              \* output cursor
    j,              \* input cursor
    nl,             \* the local nl of the current outer iteration
    compound_chars, \* the HashMap<char, String> returned by parse_compound_ch_map
    outcome,        \* "running", "profile" (Self returned) or "panic"
    diag,           \* the panic's diagnostic
    lineIn,         \* argument of a direct PuaMapping::parse call (the unit test's use)
    lineOut,        \* its result
    initialized,    \* whether lazy_static DEFS has been built
    result          \* result[c]: what caller c's last catalog lookup returned

vars == <<pc, full_name, charsetRes, compoundRes, charsetIn, charset, i, j, nl,
          compound_chars, outcome, diag, lineIn, lineOut, initialized, result>>

newVars == <<pc, full_name, charsetRes, compoundRes, charsetIn, charset, i, j, nl,
             compound_chars, outcome, diag>>

lineVars == <<lineIn, lineOut>>

catalogVars == <<initialized, result>>

(***************************************************************************)
(* Bounds of the explored inputs.                                          *)
(***************************************************************************)
\* longest charset.utf8 text explored by SpecTable
MaxLen == 5
\* most lines of a compound_chars.map explored by SpecParse
MaxLines == 3
\* longest charset.utf8 text explored by SpecNew
MaxNewLen == 1
\* number of concurrent callers of the catalog lookups
NumCallers == 2

(***************************************************************************)
(* Characters.                                                             *)
(***************************************************************************)
chNUL == 0
chLF == 10
chCR == 13
chSP == 32
chPlus == 43
chDash == 45
chEq == 61
chLBracket == 91
chRBracket == 93
\* char::MAX, the largest Unicode scalar value
CharMax == 1114111
SurrogateLo == 55296
SurrogateHi == 57343
\* the row width of the table
RowWidth == 64

Drop(s, n) == SubSeq(s, n + 1, Len(s))

Take(s, n) == SubSeq(s, 1, n)

Elems(s) == {s[k] : k \in 1..Len(s)}

(***************************************************************************)
(* nom parsers.  A parser result is [ok, rest, out]: Ok((rest, out)) or    *)
(* Err(Err::Error(_)).  None of the parsers used returns Err::Failure or   *)
(* Err::Incomplete (all are the `complete` variants).                      *)
(***************************************************************************)
Ok(rest, out) == [ok |-> TRUE, rest |-> rest, out |-> out]

Fail == [ok |-> FALSE, rest |-> <<>>, out |-> <<>>]

\* nom::character::complete::char(c)
char(c, inp) ==
    IF inp # <<>> /\ inp[1] = c THEN Ok(Tail(inp), c) ELSE Fail

\* length of the longest prefix of s holding no character of stop
SpanNot(s, stop) ==
    IF \E k \in 1..Len(s) : s[k] \in stop
    THEN (CHOOSE k \in 1..Len(s) :
              s[k] \in stop /\ \A m \in 1..(k - 1) : s[m] \notin stop) - 1
    ELSE Len(s)

\* nom::bytes::complete::is_not(stop): one or more characters outside stop
is_not(stop, inp) ==
    LET n == SpanNot(inp, stop)
    IN  IF n = 0 THEN Fail ELSE Ok(Drop(inp, n), Take(inp, n))

\* char::to_digit(16): -1 stands for None
to_digit(c) ==
    IF c \in 48..57 THEN c - 48
    ELSE IF c \in 65..70 THEN c - 55
    ELSE IF c \in 97..102 THEN c - 87
    ELSE -1

\* The digit loop of u32::from_str_radix(_, 16).  -1 stands for Err.  Every
\* value above char::MAX is kept as CharMax + 1: such a value either overflows
\* u32 (Err here) or is rejected by char::from_u32, and both make `codepoint`
\* return Err::Error.
RECURSIVE Accum(_, _)
Accum(s, acc) ==
    IF s = <<>> THEN acc
    ELSE LET d == to_digit(Head(s))
         IN  IF d < 0 THEN -1
             ELSE IF acc * 16 + d > CharMax THEN Accum(Tail(s), CharMax + 1)
             ELSE Accum(Tail(s), acc * 16 + d)

\* u32::from_str_radix(s, 16): empty input and a lone sign are errors, a
\* leading '+' is accepted
from_str_radix(s) ==
    IF s = <<>> THEN -1
    ELSE LET t == IF s[1] = chPlus THEN Tail(s) ELSE s
         IN  IF t = <<>> THEN -1 ELSE Accum(t, 0)

\* std::char::from_u32(v) is Some
from_u32(v) ==
    v >= 0 /\ v <= CharMax /\ v \notin SurrogateLo..SurrogateHi

\* map_opt(.., std::char::from_u32) on the parsed number v (-1: map_res failed)
codepoint_map_opt(rest, v) ==
    IF v < 0 THEN Fail              \* map_res: from_str_radix returned Err
    ELSE IF ~from_u32(v) THEN Fail  \* map_opt: from_u32 returned None
    ELSE Ok(rest, v)

\* map_res(is_not("-]"), |s| u32::from_str_radix(s, 16)) on is_not's result r
codepoint_map_res(r) ==
    IF ~r.ok THEN Fail ELSE codepoint_map_opt(r.rest, from_str_radix(r.out))

\* PuaMapping::parse::codepoint
codepoint(inp) == codepoint_map_res(is_not({chDash, chRBracket}, inp))

\* faulty variant of RangeOf: the second endpoint is dropped
RangeOfIgnoringB(a, hasB, b) ==
    [lo |-> a, hi |-> a]

\* the closure of PuaMapping::parse::range: (a, Some(b)) => a..=b, _ => a..=a
RangeOf(a, hasB, b) ==
    IF hasB THEN [lo |-> a, hi |-> b] ELSE [lo |-> a, hi |-> a]

\* opt(..) on the result b of preceded(char('-'), codepoint): never an error;
\* None leaves the input untouched
opt_of(inp, b) ==
    IF b.ok THEN Ok(b.rest, [some |-> TRUE, val |-> b.out])
    ELSE Ok(inp, [some |-> FALSE, val |-> 0])

\* preceded(char('-'), codepoint) on char('-')'s result d
preceded_of(d) == IF ~d.ok THEN Fail ELSE codepoint(d.rest)

\* opt(preceded(char('-'), codepoint))
opt_second(inp) == opt_of(inp, preceded_of(char(chDash, inp)))

\* map(delimited(..), closure) on the results a, b of the pair and close of
\* char(']')
range_close(a, b, close) ==
    IF ~close.ok THEN Fail
    ELSE Ok(close.rest, RangeOf(a.out, b.out.some, b.out.val))

\* pair(codepoint, opt(..)) on codepoint's result a, then char(']')
range_pair(a) ==
    IF ~a.ok THEN Fail
    ELSE range_close(a, opt_second(a.rest),
                     char(chRBracket, opt_second(a.rest).rest))

\* delimited(char('['), .., ..) on char('[')'s result open
range_open(open) == IF ~open.ok THEN Fail ELSE range_pair(codepoint(open.rest))

\* PuaMapping::parse::range
range(inp) == range_open(char(chLBracket, inp))

\* nom::character::complete::not_line_ending: up to the first "\n" or "\r\n";
\* a '\r' that is not followed by '\n' is an error
not_line_ending(inp) ==
    LET n == SpanNot(inp, {chCR, chLF})
    IN  IF n = Len(inp) THEN Ok(<<>>, inp)
        ELSE IF inp[n + 1] = chCR
             THEN IF n + 2 <= Len(inp) /\ inp[n + 2] = chLF
                  THEN Ok(Drop(inp, n), Take(inp, n))
                  ELSE Fail
             ELSE Ok(Drop(inp, n), Take(inp, n))

\* nom::character::complete::line_ending: "\n" or "\r\n"
line_ending(inp) ==
    IF Len(inp) >= 1 /\ inp[1] = chLF THEN Ok(Drop(inp, 1), <<chLF>>)
    ELSE IF Len(inp) >= 2 /\ inp[1] = chCR /\ inp[2] = chLF
         THEN Ok(Drop(inp, 2), <<chCR, chLF>>)
    ELSE Fail

\* the closure of PuaMapping::parse on the results r of range and s of
\* not_line_ending: PuaMapping::new(r, ch)
parse_payload(r, s) ==
    IF ~s.ok THEN Fail
    ELSE Ok(s.rest, [lo |-> r.out.lo, hi |-> r.out.hi, ch |-> s.out])

\* tuple((range, char('='), not_line_ending)) after range, on char('=')'s result e
parse_eq(r, e) == IF ~e.ok THEN Fail ELSE parse_payload(r, not_line_ending(e.rest))

\* tuple((range, ..)) on range's result r
parse_range(r) == IF ~r.ok THEN Fail ELSE parse_eq(r, char(chEq, r.rest))

\* PuaMapping::parse
PuaMapping_parse(inp) == parse_range(range(inp))

\* The loop of nom::multi::separated_list0(line_ending, PuaMapping::parse),
\* with inp the input and res the list so far: an Err::Error of the separator
\* (sep_match) or of the element (elem_match) ends the list with Ok and the
\* input as it stood before the separator.
RECURSIVE SepLoop(_, _)
elem_match(inp, res, e) ==
    IF ~e.ok THEN Ok(inp, res) ELSE SepLoop(e.rest, Append(res, e.out))

sep_match(inp, res, s) ==
    IF ~s.ok THEN Ok(inp, res)
    ELSE IF Len(s.rest) = Len(inp) THEN Fail    \* the infinite-loop check
    ELSE elem_match(inp, res, PuaMapping_parse(s.rest))

SepLoop(inp, res) == sep_match(inp, res, line_ending(inp))

\* separated_list0's first element, f being its parse result
first_match(inp, f) ==
    IF ~f.ok THEN Ok(inp, <<>>) ELSE SepLoop(f.rest, <<f.out>>)

\* separated_list0(line_ending, PuaMapping::parse)(i)
separated_list0(inp) == first_match(inp, PuaMapping_parse(inp))

\* faulty variant of RangeChars: the endpoints are put in order first
RangeCharsUnordered(lo, hi) ==
    {c \in (IF lo <= hi THEN lo ELSE hi)..(IF lo <= hi THEN hi ELSE lo) :
        c \notin SurrogateLo..SurrogateHi}

\* iteration of a RangeInclusive<char>: empty when lo > hi, and it steps over
\* the surrogate gap
RangeChars(lo, hi) ==
    {c \in lo..hi : c \notin SurrogateLo..SurrogateHi}

\* faulty variant of InsertRange: an existing entry is kept
InsertKeepingFirst(acc, m) ==
    LET keys == RangeChars(m.lo, m.hi)
    IN  [c \in DOMAIN acc \cup keys |-> IF c \in DOMAIN acc THEN acc[c] ELSE m.ch]

\* HashMap::insert of (codepoint, m.ch) for every codepoint of m's range
InsertRange(acc, m) ==
    LET keys == RangeChars(m.lo, m.hi)
    IN  [c \in DOMAIN acc \cup keys |-> IF c \in keys THEN m.ch ELSE acc[c]]

\* mappings.iter().flat_map(..).collect::<HashMap<_, _>>()
RECURSIVE Collect(_, _)
Collect(ms, acc) ==
    IF ms = <<>> THEN acc ELSE Collect(Tail(ms), InsertRange(acc, Head(ms)))

\* .unwrap().1 and the expansion, r being separated_list0's result;
\* [ok |-> FALSE] is the panic of .unwrap()
unwrap_collect(r) ==
    IF ~r.ok THEN [ok |-> FALSE, map |-> <<>>]
    ELSE [ok |-> TRUE, map |-> Collect(r.out, <<>>)]

\* parse_compound_ch_map
parse_compound_ch_map(inp) == unwrap_collect(separated_list0(inp))

(***************************************************************************)
(* GameDef::new.                                                           *)
(***************************************************************************)
\* String::replace("\r", "")
StripCR(s) == SelectSeq(s, LAMBDA c : c # chCR)

\* (i + 64 - 1) & !(64 - 1)
AlignUp(n) == ((n + RowWidth - 1) \div RowWidth) * RowWidth

\* faulty variant of AfterLineBreak: only the first line break of a run aligns
AfterLineBreakOneSlot(pos, seen) ==
    IF seen = 0 THEN AlignUp(pos) ELSE pos + 1

\* the cursor after one line break of a run (lines 130-131): align, then
\* i += nl, seen being nl
AfterLineBreak(pos, seen) == AlignUp(pos) + seen

\* Vec::resize(n, fill)
Resize(v, n, fill) ==
    IF n <= Len(v) THEN Take(v, n)
    ELSE v \o [k \in 1..(n - Len(v)) |-> fill]

\* faulty variant of Stored: position 0 is not exempted
StoredNeverSpace(pos, c) ==
    IF c = chSP THEN chNUL ELSE c

\* what lines 137-140 leave in charset[pos] for the input character c
Stored(pos, c) ==
    IF pos # 0 /\ c = chSP THEN chNUL ELSE c

\* faulty variant of TableAfterWrite: the table is grown to a row boundary
TableAfterWritePadded(tbl, pos, src, k) ==
    LET grown == Resize(tbl, AlignUp(pos + 1), chNUL)
    IN  IF k < Len(src)
        THEN [grown EXCEPT ![pos + 1] = Stored(pos, src[k + 1])]
        ELSE grown

\* charset.resize(i + 1, '\0') followed by the guarded store (lines 135-141);
\* Vec index pos is element pos + 1 of the sequence
TableAfterWrite(tbl, pos, src, k) ==
    LET grown == Resize(tbl, pos + 1, chNUL)
    IN  IF k < Len(src)
        THEN [grown EXCEPT ![pos + 1] = Stored(pos, src[k + 1])]
        ELSE grown

\* crate::text::EncodingMaps::new: Err(missing_pua_chars) when a key of the
\* compound map is no non-null entry of the table
EncodingMaps_new(tbl, cmap) ==
    LET missing == {k \in DOMAIN cmap : k \notin (Elems(tbl) \ {chNUL})}
    IN  [isErr |-> missing # {}, missing_pua_chars |-> missing]

\* faulty variant of Finish: the Err is not looked at
FinishIgnoringErr(name, em) ==
    [outcome |-> "profile", diag |-> [name |-> "", missing |-> {}]]

\* lines 151-173: panic on Err, else Self { .. }
Finish(name, em) ==
    IF em.isErr
    THEN [outcome |-> "panic",
          diag |-> [name |-> name, missing |-> em.missing_pua_chars]]
    ELSE [outcome |-> "profile", diag |-> [name |-> "", missing |-> {}]]

NoDiag == [name |-> "", missing |-> {}]

\* lines 116-126.  The two embedded resources are taken to exist and to be
\* UTF-8: the unwrap / expect of lines 117-119 and 146-147 do not panic.
Load ==
    /\ pc = "load"
    /\ charsetIn' = StripCR(charsetRes)
    /\ charset' = <<>>
    /\ i' = 0
    /\ j' = 0
    /\ pc' = "outer"
    /\ UNCHANGED <<lineVars, catalogVars, full_name, charsetRes, compoundRes, nl,
                   compound_chars, outcome, diag>>

\* lines 127-128: the outer loop's test and `let mut nl = 0`
OuterTest ==
    /\ pc = "outer"
    /\ IF j < Len(charsetIn)
       THEN nl' = 0 /\ pc' = "inner"
       ELSE nl' = nl /\ pc' = "parse"
    /\ UNCHANGED <<lineVars, catalogVars, full_name, charsetRes, compoundRes,
                   charsetIn, charset, i, j, compound_chars, outcome, diag>>

\* the inner loop's test (line 129)
AtLineBreak == j < Len(charsetIn) /\ charsetIn[j + 1] = chLF

\* lines 129-134: one iteration of the inner loop
LineBreak ==
    /\ pc = "inner"
    /\ AtLineBreak
    /\ i' = AfterLineBreak(i, nl)
    /\ j' = j + 1
    /\ nl' = 1
    /\ UNCHANGED <<lineVars, catalogVars, pc, full_name, charsetRes, compoundRes,
                   charsetIn, charset, compound_chars, outcome, diag>>

\* lines 135-142: the rest of one outer iteration
WriteSlot ==
    /\ pc = "inner"
    /\ ~AtLineBreak
    /\ charset' = TableAfterWrite(charset, i, charsetIn, j)
    /\ i' = i + 1
    /\ j' = j + 1
    /\ pc' = "outer"
    /\ UNCHANGED <<lineVars, catalogVars, full_name, charsetRes, compoundRes,
                   charsetIn, nl, compound_chars, outcome, diag>>

\* lines 145-148
ParseCompound ==
    /\ pc = "parse"
    /\ \E r \in {parse_compound_ch_map(compoundRes)} :
           /\ compound_chars' = r.map
           /\ pc' = IF r.ok THEN "engine" ELSE "done"
           /\ outcome' = IF r.ok THEN outcome ELSE "panic"
           /\ diag' = IF r.ok THEN diag ELSE [name |-> "unwrap", missing |-> {}]
    /\ UNCHANGED <<lineVars, catalogVars, full_name, charsetRes, compoundRes,
                   charsetIn, charset, i, j, nl>>

\* lines 149-173
BuildMaps ==
    /\ pc = "engine"
    /\ \E f \in {Finish(full_name, EncodingMaps_new(charset, compound_chars))} :
           outcome' = f.outcome /\ diag' = f.diag
    /\ pc' = "done"
    /\ UNCHANGED <<lineVars, catalogVars, full_name, charsetRes, compoundRes,
                   charsetIn, charset, i, j, nl, compound_chars>>

(***************************************************************************)
(* The catalog.                                                            *)
(***************************************************************************)
\* enum Game
Game == {"SteinsGateHD", "RoboticsNotes", "SteinsGatePhenogram", "SteinsGate0",
         "RoboticsNotesDash"}

\* lazy_static DEFS (a reserved word of TLA+, hence Defs): the game, full_name, resource_dir and aliases arguments
\* of the seven GameDef::new calls, in order
Defs ==
    << [game |-> "SteinsGateHD", full_name |-> "Steins;Gate Steam",
        resource_dir |-> "sghd", aliases |-> <<"sghd", "steinsgatehd">>],
       [game |-> "SteinsGate0",
        full_name |-> "Steins;Gate Steam (Simplified Chinese)",
        resource_dir |-> "sghdzhs", aliases |-> <<"sghdzhs", "steinsgatehdzhs">>],
       [game |-> "RoboticsNotes", full_name |-> "Robotics;Notes",
        resource_dir |-> "rn", aliases |-> <<"rn", "roboticsnotes">>],
       [game |-> "SteinsGatePhenogram",
        full_name |-> "Steins;Gate: Linear Bounded Phenogram",
        resource_dir |-> "sglbp", aliases |-> <<"sglbp", "steinsgatelbp">>],
       [game |-> "SteinsGate0", full_name |-> "Steins;Gate 0",
        resource_dir |-> "sg0", aliases |-> <<"sg0", "steinsgate0">>],
       [game |-> "SteinsGate0", full_name |-> "Steins;Gate 0 (Simplified Chinese)",
        resource_dir |-> "sg0zhs", aliases |-> <<"sg0zhs", "steinsgate0zhs">>],
       [game |-> "RoboticsNotesDash", full_name |-> "Robotics;Notes DaSH",
        resource_dir |-> "rnd", aliases |-> <<"rnd", "roboticsnotesdash">>] >>

\* faulty variant of Find: the last match
FindLast(hits) ==
    IF hits = {} THEN 0 ELSE CHOOSE k \in hits : \A m \in hits : m <= k

\* Iterator::find over DEFS.iter(), hits being the indices of the elements that
\* satisfy the predicate: the first of them, 0 for None.  A &'static GameDef
\* is identified by its index in DEFS.
Find(hits) ==
    IF hits = {} THEN 0 ELSE CHOOSE k \in hits : \A m \in hits : k <= m

\* faulty variant of AliasMatches: upper-case spellings match too
AliasMatchesFolded(x, alias) ==
    \E k \in 1..Len(x.aliases) :
        x.aliases[k] = alias \/ <<x.aliases[k], alias>> \in
            {<<"sghd", "SGHD">>, <<"sg0", "SG0">>, <<"rn", "RN">>}

\* the predicate of get_by_alias: x.aliases.contains(&alias)
AliasMatches(x, alias) ==
    \E k \in 1..Len(x.aliases) : x.aliases[k] = alias

\* get: DEFS.iter().find(|x| x.game == game).unwrap(); panic is the unwrap
\* of None
get(game) ==
    [panic |-> Find({k \in 1..Len(Defs) : Defs[k].game = game}) = 0,
     def |-> Find({k \in 1..Len(Defs) : Defs[k].game = game})]

\* get_by_alias: DEFS.iter().find(|x| x.aliases.contains(&alias))
get_by_alias(alias) ==
    [some |-> Find({k \in 1..Len(Defs) : AliasMatches(Defs[k], alias)}) # 0,
     def |-> Find({k \in 1..Len(Defs) : AliasMatches(Defs[k], alias)})]

Callers == 1..NumCallers

AllAliases == UNION {Elems(Defs[k].aliases) : k \in 1..Len(Defs)}

\* strings that are no alias of any profile
OtherStrings ==
    {"", "SGHD", "SG0", "RN", "Sghd", "sg", "sg0 ", "Steins;Gate 0", "steinsgate",
     "sghdzh"}

Idle == [op |-> "none", arg |-> "", panic |-> FALSE, some |-> FALSE, def |-> 0]

\* a call of get by caller c; dereferencing DEFS builds it on first use
CallGet(c, game) ==
    /\ \E r \in {get(game)} :
           result' = [result EXCEPT ![c] =
               [op |-> "get", arg |-> game, panic |-> r.panic,
                some |-> ~r.panic, def |-> r.def]]
    /\ initialized' = TRUE
    /\ UNCHANGED <<newVars, lineVars>>

\* a call of get_by_alias by caller c
CallGetByAlias(c, alias) ==
    /\ \E r \in {get_by_alias(alias)} :
           result' = [result EXCEPT ![c] =
               [op |-> "get_by_alias", arg |-> alias, panic |-> FALSE,
                some |-> r.some, def |-> r.def]]
    /\ initialized' = TRUE
    /\ UNCHANGED <<newVars, lineVars>>

(***************************************************************************)
(* Input texts.                                                            *)
(***************************************************************************)
SeqsUpTo(S, n) == UNION {[1..m -> S] : m \in 0..n}

\* characters of the explored charset.utf8 texts: 'A', ' ', '\n', '\r'
TextAlphabet == {65, chSP, chLF, chCR}

\* "41", "42", "43", "E01C", "e01c", "10FFFF", "0041": hexadecimal Unicode
\* scalar values, with the value each denotes
ValidToks ==
    { [txt |-> <<52, 49>>, val |-> 65],
      [txt |-> <<52, 50>>, val |-> 66],
      [txt |-> <<52, 51>>, val |-> 67],
      [txt |-> <<69, 48, 49, 67>>, val |-> 57372],
      [txt |-> <<101, 48, 49, 99>>, val |-> 57372],
      [txt |-> <<49, 48, 70, 70, 70, 70>>, val |-> 1114111],
      [txt |-> <<48, 48, 52, 49>>, val |-> 65] }

\* "", "G", "4G", "D800", "110000", "100000000", "+": no scalar value
InvalidToks ==
    { <<>>, <<71>>, <<52, 71>>, <<68, 56, 48, 48>>, <<49, 49, 48, 48, 48, 48>>,
      <<49, 48, 48, 48, 48, 48, 48, 48, 48>>, <<chPlus>> }

\* "", "meow", "=]-[", "x y"
Payloads ==
    { <<>>, <<109, 101, 111, 119>>, <<chEq, chRBracket, chDash, chLBracket>>,
      <<120, chSP, 121>> }

\* what may follow the declaration: nothing, "\n", "\r\n", "\n[42]=z"
Followers ==
    { <<>>, <<chLF>>, <<chCR, chLF>>,
      <<chLF, chLBracket, 52, 50, chRBracket, chEq, 122>> }

\* "[A]=s"
Decl1(a, s) == <<chLBracket>> \o a \o <<chRBracket, chEq>> \o s

\* "[A-B]=s"
Decl2(a, b, s) ==
    <<chLBracket>> \o a \o <<chDash>> \o b \o <<chRBracket, chEq>> \o s

AllTokTxt == {t.txt : t \in ValidToks} \cup InvalidToks

\* the lines handed to PuaMapping::parse: well-formed declarations, ones with
\* a bad endpoint, ones with the '[' or the '=' missing, ones with a lone '\r'
LineInputs ==
    {Decl1(a, s) \o f : a \in AllTokTxt, s \in Payloads, f \in Followers}
    \cup {Decl2(a, b, s) \o f :
              a \in AllTokTxt, b \in AllTokTxt, s \in Payloads, f \in Followers}
    \cup {Tail(Decl1(a.txt, s)) : a \in ValidToks, s \in Payloads}
    \cup {<<chLBracket>> \o a.txt \o <<chRBracket>> \o s :
              a \in ValidToks, s \in Payloads}
    \cup {Decl1(a.txt, <<120, chCR, 121>>) : a \in ValidToks}

\* the value of lineOut before the call
NotCalled ==
    [called |-> FALSE, ok |-> FALSE, rest |-> <<>>, lo |-> 0, hi |-> 0, ch |-> <<>>]

\* an IResult<&str, PuaMapping> as a flat record
LineResult(r) ==
    IF r.ok
    THEN [called |-> TRUE, ok |-> TRUE, rest |-> r.rest,
          lo |-> r.out.lo, hi |-> r.out.hi, ch |-> r.out.ch]
    ELSE [called |-> TRUE, ok |-> FALSE, rest |-> <<>>, lo |-> 0, hi |-> 0,
          ch |-> <<>>]

\* a direct call of PuaMapping::parse, as the unit test makes it
ParseLine ==
    /\ ~lineOut.called
    /\ lineOut' = LineResult(PuaMapping_parse(lineIn))
    /\ UNCHANGED <<lineIn, newVars, catalogVars>>

\* the lines of the explored compound_chars.map resources:
\* "[41]=x", "[41-43]=y", "[42]=", "[43-41]=z", "[42-43]=w", "", "41=x",
\* "[D800]=x"
ResLines ==
    { <<chLBracket, 52, 49, chRBracket, chEq, 120>>,
      <<chLBracket, 52, 49, chDash, 52, 51, chRBracket, chEq, 121>>,
      <<chLBracket, 52, 50, chRBracket, chEq>>,
      <<chLBracket, 52, 51, chDash, 52, 49, chRBracket, chEq, 122>>,
      <<chLBracket, 52, 50, chDash, 52, 51, chRBracket, chEq, 119>>,
      <<>>,
      <<52, 49, chEq, 120>>,
      <<chLBracket, 68, 56, 48, 48, chRBracket, chEq, 120>> }

RECURSIVE Join(_, _)
Join(ls, sep) ==
    IF ls = <<>> THEN <<>>
    ELSE IF Len(ls) = 1 THEN ls[1]
    ELSE ls[1] \o sep \o Join(Tail(ls), sep)

\* resources of at most n lines, separated by "\n" or by "\r\n"
Resources(n) ==
    {Join(ls, sep) : ls \in SeqsUpTo(ResLines, n), sep \in {<<chLF>>, <<chCR, chLF>>}}

\* the state GameDef::new starts in, its three inputs left open
NewEntry ==
    /\ pc = "load"
    /\ charsetIn = <<>>
    /\ charset = <<>>
    /\ i = 0
    /\ j = 0
    /\ nl = 0
    /\ compound_chars = <<>>
    /\ outcome = "running"
    /\ diag = NoDiag

LineIdle == lineIn = <<>> /\ lineOut = NotCalled

CatalogIdle == initialized = FALSE /\ result = [c \in Callers |-> Idle]

\* GameDef::new over every charset text of at most MaxLen characters
InitTable ==
    /\ NewEntry /\ LineIdle /\ CatalogIdle
    /\ full_name = Defs[1].full_name
    /\ charsetRes \in SeqsUpTo(TextAlphabet, MaxLen)
    /\ compoundRes = <<chLBracket, 52, 49, chRBracket, chEq, 120>>

\* GameDef::new over every compound map resource of at most MaxLines lines
InitParse ==
    /\ NewEntry /\ LineIdle /\ CatalogIdle
    /\ full_name = Defs[1].full_name
    /\ charsetRes = <<65, chLF, 66>>
    /\ compoundRes \in Resources(MaxLines)

\* GameDef::new for each profile of the catalog over short resources
InitNew ==
    /\ NewEntry /\ LineIdle /\ CatalogIdle
    /\ full_name \in {Defs[k].full_name : k \in 1..Len(Defs)}
    /\ charsetRes \in SeqsUpTo({65, 66, chLF}, MaxNewLen)
    /\ compoundRes \in Resources(1)

InitLine ==
    /\ NewEntry /\ CatalogIdle
    /\ full_name = Defs[1].full_name
    /\ charsetRes = <<>>
    /\ compoundRes = <<>>
    /\ lineIn \in LineInputs
    /\ lineOut = NotCalled

InitCatalog ==
    /\ NewEntry /\ LineIdle /\ CatalogIdle
    /\ full_name = Defs[1].full_name
    /\ charsetRes = <<>>
    /\ compoundRes = <<>>

NextNew == Load \/ OuterTest \/ LineBreak \/ WriteSlot \/ ParseCompound \/ BuildMaps

NextLine == ParseLine

NextCatalog ==
    \/ \E c \in Callers, g \in Game : CallGet(c, g)
    \/ \E c \in Callers, a \in AllAliases \cup OtherStrings : CallGetByAlias(c, a)

SpecTable == InitTable /\ [][NextNew]_vars

SpecParse == InitParse /\ [][NextNew]_vars

SpecNew == InitNew /\ [][NextNew]_vars

SpecLine == InitLine /\ [][NextLine]_vars

SpecCatalog == InitCatalog /\ [][NextCatalog]_vars

(***************************************************************************)
(* Properties of the table builder (checked under SpecTable).              *)
(***************************************************************************)
\* the table-builder loop has ended
TableBuilt == pc \in {"parse", "engine", "done"}

\* a character is about to be written: the inner loop has ended on it
AtWrite == pc = "inner" /\ ~AtLineBreak /\ j < Len(charsetIn)

\* the number of consecutive line breaks that end at element k of src
RunBefore(src, k) ==
    Cardinality({m \in 1..k : \A q \in m..k : src[q] = chLF})

\* C1 as claimed: for every input text the finished table's length is a
\* multiple of 64.
C1_LengthMultipleOfRow ==
    TableBuilt => Len(charset) % RowWidth = 0

\* C1 as amended: the finished table's length is the final output cursor.  It
\* is 0 for the empty text, the number of characters for a text without line
\* breaks, and otherwise one more than the position of the last slot written:
\* that slot holds the last character when the text ends in a character, and a
\* null one or two slots after a row boundary when the text ends in a line
\* break.  The last row is never padded to the row width.
C1_LengthIsCursor ==
    TableBuilt =>
        /\ Len(charset) = i
        /\ (charsetIn = <<>> <=> Len(charset) = 0)
        /\ (chLF \notin Elems(charsetIn) => Len(charset) = Len(charsetIn))
        /\ charsetIn # <<>> =>
               LET last == charsetIn[Len(charsetIn)]
               IN  IF last = chLF
                   THEN /\ charset[Len(charset)] = chNUL
                        /\ Len(charset) % RowWidth \in {1, 2}
                   ELSE charset[Len(charset)] \in {last, chNUL}
                        /\ (last # chSP => charset[Len(charset)] = last)

\* C1 witness: "A\n" gives a table of length 65
C1_Witness ==
    /\ TableBuilt
    /\ charsetIn = <<65, chLF>>
    /\ Len(charset) = RowWidth + 1

\* C2 as claimed: after a run of N >= 1 line breaks met with the cursor at c,
\* the next character is written at up64(c) + (N - 1).  At the head of an outer
\* iteration the cursor is the table's length, so c is Len(charset).
C2_OneSlotPerExtraBreak ==
    (AtWrite /\ RunBefore(charsetIn, j) >= 1) =>
        i = AlignUp(Len(charset)) + (RunBefore(charsetIn, j) - 1)

\* C2 as amended: after a run of N line breaks met with the cursor at c, the
\* next character is written at up64(c) when N = 1 and at
\* up64(c) + 64 * (N - 2) + 1 when N >= 2: the second line break of a run
\* advances the cursor by one slot, and every later one realigns it to the next
\* row boundary before adding one slot.
C2_RunPlacement ==
    /\ pc = "outer" => i = Len(charset)
    /\ (AtWrite /\ RunBefore(charsetIn, j) >= 1) =>
           LET n == RunBefore(charsetIn, j)
               c == Len(charset)
           IN  i = IF n = 1 THEN AlignUp(c)
                   ELSE AlignUp(c) + RowWidth * (n - 2) + 1

\* C2 witness: in "A\n\n\nA" the second 'A' is about to be written at 129
C2_Witness ==
    /\ AtWrite
    /\ RunBefore(charsetIn, j) = 3
    /\ Len(charset) = 1
    /\ i = 2 * RowWidth + 1

\* what the claim says a written character is stored as
SpaceRule(pos, c) ==
    IF c = chSP THEN (IF pos = 0 THEN chSP ELSE chNUL) ELSE c

\* C5: a space written at position 0 is stored as a space, a space written at
\* any position > 0 as the null sentinel, every other character unchanged, at
\* the position where it is written.  First conjunct: the slot just written;
\* second: the whole finished table of a text without line breaks.
C5_SpaceOnlyAtZero ==
    /\ (pc = "outer" /\ j \in 1..Len(charsetIn)) =>
           charset[i] = SpaceRule(i - 1, charsetIn[j])
    /\ (TableBuilt /\ chLF \notin Elems(charsetIn)) =>
           \A k \in 1..Len(charsetIn) : charset[k] = SpaceRule(k - 1, charsetIn[k])

\* C5 witness: " \n " leaves a space in slot 0 and null in slot 64
C5_Witness ==
    /\ pc = "outer"
    /\ charsetIn = <<chSP, chLF, chSP>>
    /\ j = 3
    /\ i = RowWidth + 1
    /\ charset[1] = chSP
    /\ charset[RowWidth + 1] = chNUL

(***************************************************************************)
(* Properties of the compound map parser (SpecParse, SpecLine).            *)
(***************************************************************************)
\* parse_compound_ch_map has returned a map
ParseReturned == pc = "engine" \/ (pc = "done" /\ diag.name # "unwrap")

\* the declarations separated_list0 hands to the expander
Mappings == separated_list0(compoundRes).out

\* the lines of a resource, split at "\n" and "\r\n"
RECURSIVE SplitLines(_)
SplitLines(s) ==
    LET n == SpanNot(s, {chLF})
        cut == IF n >= 1 /\ n < Len(s) /\ s[n] = chCR THEN n - 1 ELSE n
    IN  IF n = Len(s) THEN <<s>>
        ELSE <<Take(s, cut)>> \o SplitLines(Drop(s, n + 1))

\* the line is one declaration of the grammar and nothing else
LineMatches(l) == PuaMapping_parse(l).ok /\ PuaMapping_parse(l).rest = <<>>

HasBadLine(res) ==
    res # <<>> /\ \E k \in 1..Len(SplitLines(res)) : ~LineMatches(SplitLines(res)[k])

\* C3: parsing is all-or-nothing: a resource with a line that does not match
\* the grammar makes the parse fail fatally; it never returns a map.
C3_AllOrNothing ==
    HasBadLine(compoundRes) => ~ParseReturned

\* the codepoints of declaration m's inclusive range
Covered(m) == {c \in m.lo..m.hi : c \notin SurrogateLo..SurrogateHi}

\* the map the claims describe for a list of declarations: the covered
\* codepoints, each with the payload of the last declaration covering it
ExpectedMap(ms) ==
    [c \in UNION {Covered(ms[k]) : k \in 1..Len(ms)} |->
        ms[CHOOSE k \in 1..Len(ms) :
               /\ c \in Covered(ms[k])
               /\ \A m \in (k + 1)..Len(ms) : c \notin Covered(ms[m])].ch]

\* C4: the returned map's keys are exactly the codepoints covered by some
\* declaration, each mapped to the payload of the last declaration in file
\* order covering it; overlapping declarations cause no error.
C4_LastDeclarationWins ==
    /\ pc = "done" => diag.name # "unwrap"
    /\ ParseReturned =>
           /\ DOMAIN compound_chars = UNION {Covered(Mappings[k]) : k \in 1..Len(Mappings)}
           /\ compound_chars = ExpectedMap(Mappings)

\* C4 witness: "[41-43]=y" followed by "[42-43]=w"
C4_Witness ==
    /\ pc = "done"
    /\ Len(Mappings) = 2
    /\ DOMAIN compound_chars = {65, 66, 67}
    /\ compound_chars[65] = <<121>>
    /\ compound_chars[66] = <<119>>
    /\ compound_chars[67] = <<119>>

\* the list without its k-th element
Without(ms, k) == Take(ms, k - 1) \o Drop(ms, k)

\* "[43-41]=z"
ReversedLine == <<chLBracket, 52, 51, chDash, 52, 49, chRBracket, chEq, 122>>

\* C10: a declaration whose second endpoint is below its first is accepted by
\* PuaMapping::parse (it is among the parsed declarations, with its endpoints
\* as written) and contributes no entry: the map is what the other
\* declarations alone give.
C10_ReversedRangeIsEmpty ==
    ParseReturned =>
        /\ (/\ Len(compoundRes) >= Len(ReversedLine)
            /\ Take(compoundRes, Len(ReversedLine)) = ReversedLine) =>
               /\ Len(Mappings) >= 1
               /\ Mappings[1] = [lo |-> 67, hi |-> 65, ch |-> <<122>>]
        /\ \A k \in 1..Len(Mappings) :
               Mappings[k].lo > Mappings[k].hi =>
                   compound_chars = ExpectedMap(Without(Mappings, k))

\* C10 witness: "[41]=x" followed by a reversed declaration
C10_Witness ==
    /\ pc = "done"
    /\ Len(Mappings) = 2
    /\ Mappings[2].lo > Mappings[2].hi
    /\ DOMAIN compound_chars = {65}
    /\ compound_chars[65] = <<120>>

\* C6: PuaMapping::parse of "[A]=s" returns A..=A with payload s, of "[A-B]=s"
\* returns A..=B with payload s, for hexadecimal scalar values A, B and a
\* payload s (possibly empty) that ends before the line break; what follows
\* the payload is left unconsumed.
C6_ParseDeclaration ==
    lineOut.called =>
        \A a \in ValidToks, s \in Payloads, f \in Followers :
            /\ lineIn = Decl1(a.txt, s) \o f =>
                   lineOut = [called |-> TRUE, ok |-> TRUE, rest |-> f,
                              lo |-> a.val, hi |-> a.val, ch |-> s]
            /\ \A b \in ValidToks :
                   lineIn = Decl2(a.txt, b.txt, s) \o f =>
                       lineOut = [called |-> TRUE, ok |-> TRUE, rest |-> f,
                                  lo |-> a.val, hi |-> b.val, ch |-> s]

\* C6 witness: "[E01C-10FFFF]=" followed by a line break
C6_Witness ==
    /\ lineOut.called
    /\ lineOut.ok
    /\ lineOut.lo = 57372
    /\ lineOut.hi = CharMax
    /\ lineOut.ch = <<>>
    /\ lineOut.rest = <<chLF>>

(***************************************************************************)
(* Properties of GameDef::new's validation (SpecNew).                      *)
(***************************************************************************)
\* C9: when the encoding-engine builder reports missing codepoints,
\* GameDef::new panics with a diagnostic naming full_name and every reported
\* codepoint and produces no profile; a profile is produced only when the
\* builder reports none.
C9_MissingCodepointsAbort ==
    /\ pc # "done" => outcome = "running"
    /\ pc = "done" =>
           IF EncodingMaps_new(charset, compound_chars).isErr
           THEN /\ outcome = "panic"
                /\ diag.name = full_name
                /\ diag.missing =
                       EncodingMaps_new(charset, compound_chars).missing_pua_chars
           ELSE outcome = "profile"

\* C9 witness: two codepoints of the map are missing from the table
C9_Witness ==
    /\ pc = "done"
    /\ outcome = "panic"
    /\ diag.name = "Steins;Gate 0"
    /\ Cardinality(diag.missing) >= 2

(***************************************************************************)
(* Properties of the catalog lookups (SpecCatalog).                        *)
(***************************************************************************)
\* the profiles whose alias list holds a
Owners(a) == {k \in 1..Len(Defs) : a \in Elems(Defs[k].aliases)}

\* C7: get_by_alias(a) returns the profile whose alias list holds a, and no
\* other; for a string in no alias list it returns None.
C7_AliasFindsItsProfile ==
    \A c \in Callers :
        result[c].op = "get_by_alias" =>
            IF Owners(result[c].arg) = {}
            THEN ~result[c].some
            ELSE result[c].some /\ Owners(result[c].arg) = {result[c].def}

\* C7 witness: one caller found "steinsgate0", another did not find "SGHD"
C7_Witness ==
    /\ result[1].op = "get_by_alias"
    /\ result[1].arg = "steinsgate0"
    /\ result[1].def = 5
    /\ result[2].op = "get_by_alias"
    /\ result[2].arg = "SGHD"
    /\ ~result[2].some

\* C8: get(id) does not panic for any variant of Game and returns the first
\* profile in catalog order whose game is id.
C8_GetFindsFirst ==
    \A c \in Callers :
        result[c].op = "get" =>
            /\ ~result[c].panic
            /\ result[c].def \in 1..Len(Defs)
            /\ Defs[result[c].def].game = result[c].arg
            /\ \A k \in 1..(result[c].def - 1) : Defs[k].game # result[c].arg

\* C8 witness: get(Game::SteinsGate0) returned the second profile of the list
C8_Witness ==
    /\ initialized
    /\ \E c \in Callers :
           /\ result[c].op = "get"
           /\ result[c].arg = "SteinsGate0"
           /\ result[c].def = 2
    /\ \A g \in Game : \E k \in 1..Len(Defs) : Defs[k].game = g

====
